---- MODULE Spec2Model ----
(***************************************************************************)
(* Retry / quality-control state machine of the financial assistant:      *)
(* Workflow (src/src/workflow/workflow.py) driving the quality evaluator   *)
(* (src/src/agents/quality_evaluator.py).                                  *)
(*                                                                         *)
(* Text is modelled as a sequence of words; Korean words are written in    *)
(* ASCII with the prefix KO_ (KO_chart is the word for "chart", ...).      *)
(* `keyword in text` of the source is membership of the keyword among the  *)
(* words of the text.                                                      *)
(***************************************************************************)
EXTENDS Integers, Sequences, FiniteSets, TLC

VARIABLES
    node,                       \* graph position: the node that runs next, or "END"
    question,                   \* WorkflowState.question
    answer,                     \* WorkflowState.answer
    route,                      \* WorkflowState.route
    request_type,               \* WorkflowState.request_type ("NOT_SET": key absent)
    analysis_data,              \* WorkflowState.analysis_data
    rag_search_results,         \* WorkflowState.rag_search_results (number of lines)
    quality_passed,             \* WorkflowState.quality_passed
    quality_detail,             \* WorkflowState.quality_detail
    retries,                    \* WorkflowState.retries
    previous_failure_reason,    \* WorkflowState.previous_failure_reason
    consecutive_same_failures,  \* WorkflowState.consecutive_same_failures
    messages,                   \* WorkflowState.messages (roles of the prior turns)
    current_charts,             \* WorkflowState.current_charts
    current_saved_file,         \* WorkflowState.current_saved_file
    run_question,               \* the question argument of Workflow.run
    run_previous,               \* the previous_analysis_data argument of Workflow.run
    evaluated_question,         \* question argument of the latest evaluate_answer call
    rewrite_calls,              \* number of rewrite_query calls made in this run
    rewrite_result,             \* result of the latest rewrite_query call
    report_input,               \* analysis_data argument of the latest generate_report call
    traversal,                  \* what the current graph traversal has done so far
    evaluations,                \* outcomes of the evaluate_answer calls of this run
    breaker,                    \* the branch of quality_evaluator_node that ended the run
    call                        \* the latest direct call of an agent method: its
                                \* arguments, what its collaborators did, its result

vars == << node, question, answer, route, request_type, analysis_data,
           rag_search_results, quality_passed, quality_detail, retries,
           previous_failure_reason, consecutive_same_failures, messages,
           current_charts, current_saved_file, run_question, run_previous,
           evaluated_question, rewrite_calls, rewrite_result, report_input,
           traversal, evaluations, breaker, call >>

-----------------------------------------------------------------------------
(* Bounds of the model *)

\* number of distinct rewritten queries the rewrite step may produce
NumRewrittenQueries == 2

\* trimmed length of the longest LLM-written report text
MaxReportChars == 11

\* the bookkeeping of a run keeps its latest MaxHistory evaluations and counts
\* calls up to MaxCount
MaxHistory == 2
MaxCount == 2

Count(n) == IF n < MaxCount THEN n + 1 ELSE n

Record(h, x) == IF Len(h) < MaxHistory THEN Append(h, x) ELSE Append(Tail(h), x)

-----------------------------------------------------------------------------
(* Program constants *)

\* if state['retries'] >= 2
RetryCap == 2

\* if state["consecutive_same_failures"] >= 2
SameFailureCap == 2

\* len(answer.strip()) < 10
MinAnswerChars == 10

\* self.threshold = ... 2.0
Threshold == 2

-----------------------------------------------------------------------------
(* Text *)

WS == " "

RECURSIVE LStrip(_)
LStrip(s) == IF s # << >> /\ Head(s) = WS THEN LStrip(Tail(s)) ELSE s

RECURSIVE RStrip(_)
RStrip(s) ==
    IF s # << >> /\ s[Len(s)] = WS THEN RStrip(SubSeq(s, 1, Len(s) - 1)) ELSE s

\* str.strip()
Strip(s) == RStrip(LStrip(s))

\* str.lower(), word by word
LowerWord(w) ==
    CASE w = "PDF" -> "pdf"
      [] w = "MD" -> "md"
      [] w = "Hi" -> "hi"
      [] OTHER -> w

Lower(s) == [i \in 1..Len(s) |-> LowerWord(s[i])]

\* any(keyword in text for keyword in keywords)
ContainsAny(s, keywords) == \E i \in 1..Len(s) : s[i] \in keywords

follow_up_keywords ==
    { "KO_graph", "KO_chart", "KO_save", "KO_draw", "KO_download", "KO_file",
      "pdf", "md", "markdown", "KO_report" }

\* questions a caller may pass to run
Questions ==
    { << WS >>,
      << "samsung", "KO_analysis" >>,
      << "PDF", "KO_save" >>,
      << "KO_annyeong" >> }

\* queries the rewrite step may return
AllRewrittenQueries ==
    << << "samsung", "KO_stock", "KO_analysis" >>,
       << "samsung", "KO_report", "PDF", "KO_save" >>,
       << "samsung", "KO_analysis" >>,
       << "KO_eung" >> >>

RewrittenQueries ==
    { AllRewrittenQueries[i] :
        i \in 1..(IF NumRewrittenQueries < Len(AllRewrittenQueries)
                  THEN NumRewrittenQueries ELSE Len(AllRewrittenQueries)) }

-----------------------------------------------------------------------------
(* Answers: a text with its trimmed length, the whitespace around it and   *)
(* the three marker classes the quality evaluator looks for.               *)

Text(id, n, pad, s, c, e) ==
    [msg |-> id, chars |-> n, padding |-> pad, success |-> s, critical |-> c,
     errorkw |-> e]

Msg(id, n, s, c, e) == Text(id, n, 0, s, c, e)

NoAnswer == Msg("", 0, FALSE, FALSE, FALSE)

EmptyQuestionMsg == Msg("empty_question", 24, FALSE, TRUE, FALSE)
NotFinanceMsg == Msg("not_finance", 18, FALSE, FALSE, FALSE)
AnalystInvalidMsg == Msg("analyst_invalid", 37, FALSE, FALSE, FALSE)
AnalystExceptionMsg == Msg("analyst_exception", 19, FALSE, TRUE, TRUE)
FallbackNoDataMsg == Msg("fallback_no_data", 79, FALSE, FALSE, FALSE)
FallbackExceptionMsg == Msg("fallback_exception", 46, FALSE, TRUE, TRUE)
NoAnalysisDataMsg == Msg("no_analysis_data", 29, FALSE, TRUE, FALSE)
ReportInvalidMsg == Msg("report_invalid", 20, FALSE, FALSE, FALSE)
ReportMissingMsg == Msg("report_missing", 16, FALSE, TRUE, FALSE)
ReportExceptionMsg == Msg("report_exception", 20, FALSE, TRUE, TRUE)
GiveUpMsg == Msg("give_up", 92, FALSE, FALSE, FALSE)
TechnicalApologyMsg == Msg("technical_apology", 128, FALSE, FALSE, FALSE)
ClarifyMsg == Msg("request_for_detail", 24, FALSE, FALSE, FALSE)
RetryStatusMsg == Msg("retry_status", 22, FALSE, FALSE, FALSE)
GreetingMsg == Msg("greeting", 37, FALSE, FALSE, FALSE)
ThanksMsg == Msg("thanks", 39, FALSE, FALSE, FALSE)
GoodbyeMsg == Msg("goodbye", 26, FALSE, FALSE, FALSE)
MetaPreviousMsg == Msg("meta_previous", 19, FALSE, FALSE, FALSE)
MetaNoneMsg == Msg("meta_none", 34, FALSE, FALSE, FALSE)
ConversationMsg == Msg("conversation", MinAnswerChars, FALSE, FALSE, FALSE)
ConversationFailedMsg == Msg("conversation_failed", 37, FALSE, FALSE, FALSE)

\* report texts the Report Composer may return
ReportTexts ==
    { Msg("report_text", MinAnswerChars - 1, FALSE, FALSE, TRUE),
      Msg("report_text", MinAnswerChars, FALSE, FALSE, FALSE),
      Msg("report_text", MaxReportChars, FALSE, FALSE, TRUE),
      Msg("report_text", MaxReportChars, TRUE, TRUE, TRUE) }

-----------------------------------------------------------------------------
(* analysis_data *)

NoData ==
    [present |-> FALSE, analysis_type |-> "", origin |-> "",
     chart_paths |-> {}, saved_file_path |-> ""]

Data(type, from) ==
    [present |-> TRUE, analysis_type |-> type, origin |-> from,
     chart_paths |-> {}, saved_file_path |-> ""]

\* previous_analysis_data as the front ends pass it: None or a stored payload
PreviousAnalysisData ==
    { NoData,
      [Data("single", "previous_turn") EXCEPT !.chart_paths = {"stock_chart"}] }

\* outcomes of FinancialAnalyst.analyze as the nodes distinguish them
AnalyzeOutcomes ==
    { [kind |-> "raise", data |-> NoData],
      [kind |-> "empty", data |-> NoData] }
    \cup { [kind |-> "dict", data |-> Data(t, "analyze")] :
             t \in {"single", "error"} }

\* bookkeeping of one traversal: bypass taken, classifier called, number of
\* analyze calls, generate_report called, what retriever.retrieve returned
\* ("none": not called), and the query and outcome of the analyze call that
\* report_generator_node makes on an empty retrieval
NoTraversal ==
    [bypass |-> FALSE, classified |-> FALSE, routed |-> FALSE,
     analyze |-> 0, composer |-> FALSE, retrieved |-> "none",
     fallback |-> "none", fallback_query |-> << "NOT_CALLED" >>]

\* no rewrite_query call made yet
NoRewrite ==
    [needs_user_input |-> FALSE, has_query |-> FALSE,
     rewritten_query |-> << "NOT_CALLED" >>]

\* no agent method called directly
NoCall == [fn |-> "none"]

NoDetail ==
    [status |-> "", score |-> 0, scores |-> << >>, failure_reason |-> "",
     keys |-> {}]

-----------------------------------------------------------------------------
(* Workflow.run: the initial state handed to graph.invoke *)

Init ==
    /\ run_question \in Questions
    /\ messages \in { << >>, << "human", "ai" >> }
    \* the stored payload comes from an assistant turn of the history
    /\ run_previous \in IF messages = << >> THEN {NoData} ELSE PreviousAnalysisData
    /\ question = run_question
    /\ answer = NoAnswer
    /\ route = ""
    /\ retries = 0
    /\ quality_passed = FALSE
    /\ rag_search_results = 0
    /\ consecutive_same_failures = 0
    /\ previous_failure_reason = ""
    /\ analysis_data = run_previous
    /\ request_type = "NOT_SET"
    /\ quality_detail = NoDetail
    /\ current_charts = {}
    /\ current_saved_file = ""
    /\ node = "request_analyst"
    /\ evaluated_question = << "NOT_EVALUATED" >>
    /\ rewrite_calls = 0
    /\ rewrite_result = NoRewrite
    /\ report_input = NoData
    /\ traversal = NoTraversal
    /\ evaluations = << >>
    /\ breaker = "none"
    /\ call = NoCall

-----------------------------------------------------------------------------
(* Edge routing helpers *)

_route_from_request_analyst(r) ==
    IF r = "report_generator" THEN "report_generator"
    ELSE IF r = "end" THEN "END"
    ELSE "supervisor"

_route_from_supervisor(r) == IF r = "end" THEN "END" ELSE r

\* an evaluator edge that always leads to END
_route_from_quality_evaluator_ends(r) == "END"

_route_from_quality_evaluator(r) ==
    IF r = "retry" THEN "request_analyst" ELSE "END"

-----------------------------------------------------------------------------
(* request_analyst_node *)

\* the bypass taken without looking for stored analysis data
has_previous_analysis_ignored == TRUE

has_previous_analysis == analysis_data.present

is_follow_up(q) == ContainsAny(Lower(Strip(q)), follow_up_keywords)

\* labels of request_analysis
Labels == {"finance", "general_conversation", "not_finance"}

request_analyst_node ==
    /\ node = "request_analyst"
    /\ \E label \in Labels :
        LET blank == Strip(question) = << >>
            bypass == ~blank /\ has_previous_analysis /\ is_follow_up(question)
            classify == ~blank /\ ~bypass
            r == IF blank THEN "end"
                 ELSE IF bypass THEN "report_generator"
                 ELSE IF label = "finance" THEN "supervisor"
                 ELSE "end"
        IN  /\ route' = r
            /\ answer' = IF blank THEN EmptyQuestionMsg
                         ELSE IF classify /\ label # "finance" THEN NotFinanceMsg
                         ELSE answer
            /\ request_type' = IF bypass THEN "financial_analyst" ELSE request_type
            /\ traversal' = [NoTraversal EXCEPT !.bypass = bypass,
                                                !.classified = classify]
            /\ node' = _route_from_request_analyst(r)
    /\ UNCHANGED << question, analysis_data, rag_search_results, quality_passed,
                    quality_detail, retries, previous_failure_reason,
                    consecutive_same_failures, messages, current_charts,
                    current_saved_file, run_question, run_previous,
                    evaluated_question, rewrite_calls, rewrite_result, report_input,
                    evaluations, breaker, call >>

-----------------------------------------------------------------------------
(* supervisor_node *)

AgentChoices == {"financial_analyst", "vector_search_agent", "none"}

supervisor_node ==
    /\ node = "supervisor"
    /\ \E agent_choice \in AgentChoices :
        LET r == IF agent_choice = "financial_analyst" THEN "financial_analyst"
                 ELSE IF agent_choice = "vector_search_agent" THEN "report_generator"
                 ELSE "general_conversation"
        IN  /\ route' = r
            /\ request_type' = IF agent_choice = "vector_search_agent"
                               THEN "rag" ELSE request_type
            /\ node' = _route_from_supervisor(r)
    /\ traversal' = [traversal EXCEPT !.routed = TRUE]
    /\ UNCHANGED << question, answer, analysis_data, rag_search_results,
                    quality_passed, quality_detail, retries,
                    previous_failure_reason, consecutive_same_failures, messages,
                    current_charts, current_saved_file, run_question,
                    run_previous, evaluated_question, rewrite_calls,
                    rewrite_result, report_input, evaluations, breaker, call >>

-----------------------------------------------------------------------------
(* financial_analyst_node *)

financial_analyst_node ==
    /\ node = "financial_analyst"
    /\ \E out \in AnalyzeOutcomes :
        /\ analysis_data' = IF out.kind = "dict" THEN out.data ELSE analysis_data
        /\ request_type' = IF out.kind = "dict" THEN "financial_analyst"
                           ELSE request_type
        /\ answer' = CASE out.kind = "dict" -> answer
                       [] out.kind = "empty" -> AnalystInvalidMsg
                       [] OTHER -> AnalystExceptionMsg
        /\ route' = IF out.kind = "dict" THEN route ELSE "end"
    /\ traversal' = [traversal EXCEPT !.analyze = Count(@)]
    \* graph.add_edge("financial_analyst", "report_generator")
    /\ node' = "report_generator"
    /\ UNCHANGED << question, rag_search_results, quality_passed, quality_detail,
                    retries, previous_failure_reason, consecutive_same_failures,
                    messages, current_charts, current_saved_file, run_question,
                    run_previous, evaluated_question, rewrite_calls,
                    rewrite_result, report_input, evaluations, breaker, call >>

-----------------------------------------------------------------------------
(* general_conversation_node *)

greetings == {"KO_annyeong", "KO_hai", "hi", "hello", "KO_hello"}
thanks == {"KO_goma", "KO_gamsa", "thanks", "thank you", "KO_thankyou"}
goodbyes == {"KO_jalga", "KO_annyeonghi", "bye", "goodbye", "KO_bye"}
meta_patterns == {"KO_banggeum", "KO_akka", "KO_jeone", "KO_cheoeum", "KO_cheot",
                  "KO_ijeon"}

user_messages == SelectSeq(messages, LAMBDA m : m = "human")

\* the conversation answer handed to the quality evaluator like a report
general_conversation_edge_evaluated == "quality_evaluator"

\* graph.add_edge("general_conversation", END)
general_conversation_edge == "END"

general_conversation_node ==
    /\ node = "general_conversation"
    /\ \E llm_ok \in BOOLEAN :
        LET question_lower == Lower(Strip(question))
        IN  answer' =
              IF ContainsAny(question_lower, greetings) THEN GreetingMsg
              ELSE IF ContainsAny(question_lower, thanks) THEN ThanksMsg
              ELSE IF ContainsAny(question_lower, goodbyes) THEN GoodbyeMsg
              ELSE IF ContainsAny(question_lower, meta_patterns)
                   THEN (IF Len(user_messages) >= 1 THEN MetaPreviousMsg
                         ELSE MetaNoneMsg)
              ELSE IF llm_ok THEN ConversationMsg
              ELSE ConversationFailedMsg
    /\ route' = "end"
    /\ node' = general_conversation_edge
    /\ UNCHANGED << question, request_type, analysis_data, rag_search_results,
                    quality_passed, quality_detail, retries,
                    previous_failure_reason, consecutive_same_failures, messages,
                    current_charts, current_saved_file, run_question,
                    run_previous, evaluated_question, rewrite_calls,
                    rewrite_result, report_input, traversal, evaluations,
                    breaker, call >>

-----------------------------------------------------------------------------
(* report_generator_node *)

\* what generate_report hands back to the node: a report mapping, something
\* that is not a mapping, or an exception
ReportArtifacts ==
    { [charts |-> {}, saved_path |-> ""],
      [charts |-> {}, saved_path |-> "report_file"],
      [charts |-> {"stock_chart", "valuation_radar"},
       saved_path |-> "report_file"] }

ReportOutcomes ==
    { [kind |-> k, report |-> NoAnswer, charts |-> {}, saved_path |-> ""] :
        k \in {"raise", "invalid"} }
    \cup { [kind |-> "dict", report |-> t, charts |-> a.charts,
            saved_path |-> a.saved_path] :
             t \in ReportTexts \cup {ReportMissingMsg}, a \in ReportArtifacts }

\* len(user_request.strip().split())
word_count(s) == Cardinality({i \in 1..Len(s) : s[i] # WS})

\* ReportPlan as the LLM returns it
ReportPlans ==
    [needs_stock_chart : BOOLEAN, needs_valuation_chart : BOOLEAN,
     needs_save : BOOLEAN, save_format : {"none", "pdf"}]

\* lines 244-281
_validate_explicit_requests(user_request, plan) ==
    IF word_count(user_request) <= 3
    THEN IF plan.needs_save
         THEN [plan EXCEPT !.needs_save = FALSE, !.save_format = "none"]
         ELSE IF plan.needs_stock_chart \/ plan.needs_valuation_chart
         THEN [plan EXCEPT !.needs_stock_chart = FALSE,
                           !.needs_valuation_chart = FALSE]
         ELSE plan
    ELSE plan

\* the reports generate_report can hand back for a user_request: the save tool
\* is reached only with a plan that still asks for a save after
\* _validate_explicit_requests
ReportOutcomesFor(user_request) ==
    { rep \in ReportOutcomes :
        rep.saved_path # ""
          => \E p \in ReportPlans :
               LET plan == _validate_explicit_requests(user_request, p)
               IN  plan.needs_save /\ plan.save_format # "none" }

\* lines 335-375: generate the report from data and store it in the state
ComposeReport(data, retrieved, rep) ==
    /\ report_input' = data
    /\ traversal' =
         IF retrieved = "empty"
         THEN [traversal EXCEPT !.analyze = Count(@), !.composer = TRUE,
                                !.retrieved = retrieved, !.fallback = "dict",
                                !.fallback_query = question]
         ELSE [traversal EXCEPT !.composer = TRUE, !.retrieved = retrieved]
    /\ answer' = CASE rep.kind = "raise" -> ReportExceptionMsg
                   [] rep.kind = "invalid" -> ReportInvalidMsg
                   [] OTHER -> rep.report
    /\ current_charts' = IF rep.kind = "dict" THEN rep.charts ELSE current_charts
    /\ current_saved_file' = IF rep.kind = "dict" THEN rep.saved_path
                             ELSE current_saved_file
    /\ analysis_data' =
         IF rep.kind = "dict"
         THEN [data EXCEPT
                 !.chart_paths = IF rep.charts # {} THEN rep.charts ELSE @,
                 !.saved_file_path = IF rep.saved_path # "" THEN rep.saved_path
                                     ELSE @]
         ELSE data

\* early return of the node with a fixed answer, generate_report not called
ReturnAnswer(m, retrieved, fallback) ==
    /\ answer' = m
    /\ traversal' =
         IF retrieved = "empty"
         THEN [traversal EXCEPT !.analyze = Count(@), !.retrieved = retrieved,
                                !.fallback = fallback,
                                !.fallback_query = question]
         ELSE traversal
    /\ UNCHANGED << analysis_data, request_type, rag_search_results,
                    current_charts, current_saved_file, report_input >>

\* the request_type left at rag after the analysis agent answered
FallbackRequestType_kept == "rag"

\* line 286: state["request_type"] = "financial_analyst"
FallbackRequestType == "financial_analyst"

report_generator_node ==
    /\ node = "report_generator"
    /\ IF request_type \in {"rag", "NOT_SET"}
       THEN \E results \in 0..1 :
              IF results = 0
              THEN \E out \in AnalyzeOutcomes :
                     CASE out.kind = "dict" ->
                            /\ request_type' = FallbackRequestType
                            /\ rag_search_results' = rag_search_results
                            /\ \E rep \in ReportOutcomesFor(question) :
                                 ComposeReport(out.data, "empty", rep)
                       [] out.kind = "empty" ->
                            ReturnAnswer(FallbackNoDataMsg, "empty", "empty")
                       [] OTHER ->
                            ReturnAnswer(FallbackExceptionMsg, "empty", "raise")
              ELSE /\ rag_search_results' = results
                   /\ request_type' = request_type
                   /\ \E rep \in ReportOutcomesFor(question) :
                        ComposeReport(Data("rag", "retriever"), "found", rep)
       ELSE IF ~analysis_data.present
            THEN ReturnAnswer(NoAnalysisDataMsg, "none", "none")
            ELSE /\ UNCHANGED << request_type, rag_search_results >>
                 /\ \E rep \in ReportOutcomesFor(question) :
                      ComposeReport(analysis_data, "none", rep)
    \* graph.add_edge("report_generator", "quality_evaluator")
    /\ node' = "quality_evaluator"
    /\ UNCHANGED << question, route, quality_passed, quality_detail, retries,
                    previous_failure_reason, consecutive_same_failures, messages,
                    run_question, run_previous, evaluated_question,
                    rewrite_calls, rewrite_result, evaluations, breaker, call >>

-----------------------------------------------------------------------------
(* QualityEvaluator *)

criteria == 1..4

\* what the judge LLM wrote after each criterion label: a number, or -1 when
\* the line is missing
JudgeLines ==
    { << 6, 0, -1, 6 >>,
      << 1, 2, 1, -1 >>,
      << 1, 3, -1, 6 >> }

JudgeResponses ==
    { [raises |-> TRUE, lines |-> << -1, -1, -1, -1 >>] }
    \cup { [raises |-> FALSE, lines |-> l] : l \in JudgeLines }

\* naive keyword matching: failure phrases and error vocabulary looked at first
_is_critical_error_keywords_first(a) == a.critical \/ a.errorkw

_is_critical_error(a) ==
    IF a.success THEN FALSE
    ELSE IF a.critical THEN TRUE
    ELSE a.errorkw

\* re.search(rf"{criterion}\s*[:]\s([1-5])", ...) per criterion, 0 when no match
_parse_scores(lines) ==
    [c \in criteria |-> IF lines[c] \in 1..5 THEN lines[c] ELSE 0]

RECURSIVE SumOver(_, _)
SumOver(f, S) ==
    IF S = {} THEN 0
    ELSE LET c == CHOOSE x \in S : TRUE IN f[c] + SumOver(f, S \ {c})

\* round(avg_score, 2), in hundredths
Round2(total, count) == (200 * total + count) \div (2 * count)

ResultKeys == {"status", "score", "scores", "failure_reason"}

\* the length of the answer as it came, surrounding whitespace included
TrimmedLength_untrimmed(a) == a.chars + a.padding

\* len(answer.strip())
TrimmedLength(a) == a.chars

\* every criterion taken into the average, the unparseable ones as 0
valid_scores_all(scores) == criteria

\* valid_scores = [s for s in scores.values() if s > 0]
valid_scores(scores) == {c \in criteria : scores[c] > 0}

evaluate_answer(q, a, judge) ==
    IF TrimmedLength(a) < MinAnswerChars
    THEN [status |-> "fail", score |-> 0, scores |-> << >>,
          failure_reason |-> "empty",
          keys |-> {"status", "score", "socres", "failure_reason"}]
    ELSE IF _is_critical_error(a)
    THEN [status |-> "fail", score |-> 0, scores |-> << >>,
          failure_reason |-> "error", keys |-> ResultKeys]
    ELSE IF judge.raises
    THEN [status |-> "fail", score |-> 0, scores |-> << >>,
          failure_reason |-> "error", keys |-> ResultKeys]
    ELSE LET scores == _parse_scores(judge.lines)
             valid == valid_scores(scores)
             total == SumOver(scores, valid)
         IN  IF valid = {}
             THEN [status |-> "fail", score |-> 0, scores |-> scores,
                   failure_reason |-> "error", keys |-> ResultKeys]
             ELSE IF total >= Threshold * Cardinality(valid)
             THEN [status |-> "pass",
                   score |-> Round2(total, Cardinality(valid)),
                   scores |-> scores, failure_reason |-> "None",
                   keys |-> ResultKeys]
             ELSE [status |-> "fail",
                   score |-> Round2(total, Cardinality(valid)),
                   scores |-> scores, failure_reason |-> "low_quality",
                   keys |-> ResultKeys]

-----------------------------------------------------------------------------
(* quality_evaluator_node, lines 377-397: evaluate and update the counters *)

\* the counter incremented whatever the preceding failure reason was
NextSameFailures_always_increments(c, current_failure, previous_failure) == c + 1

\* lines 391-394
NextSameFailures(c, current_failure, previous_failure) ==
    IF current_failure = previous_failure THEN c + 1 ELSE 1

\* the increment of line 397 left out
NextRetries_forgotten(r) == r

\* line 397
NextRetries(r) == r + 1

quality_evaluator_node ==
    /\ node = "quality_evaluator"
    /\ \E judge \in JudgeResponses :
        LET result == evaluate_answer(question, answer, judge)
            failed == result.status # "pass"
            current_failure == result.failure_reason
        IN  /\ quality_detail' = result
            /\ quality_passed' = ~failed
            /\ evaluations' = Record(evaluations, current_failure)
            /\ consecutive_same_failures' =
                 IF failed
                 THEN NextSameFailures(consecutive_same_failures,
                                       current_failure, previous_failure_reason)
                 ELSE consecutive_same_failures
            /\ previous_failure_reason' =
                 IF failed THEN current_failure ELSE previous_failure_reason
            /\ retries' = IF failed THEN NextRetries(retries) ELSE retries
    /\ evaluated_question' = question
    /\ node' = "quality_evaluator_decide"
    /\ UNCHANGED << question, answer, route, request_type, analysis_data,
                    rag_search_results, messages, current_charts,
                    current_saved_file, run_question, run_previous,
                    rewrite_calls, rewrite_result, report_input, traversal,
                    breaker, call >>

-----------------------------------------------------------------------------
(* quality_evaluator_node, lines 398-464: circuit breakers, rewrite, reset *)

\* results of rewrite_query
RewriteResults ==
    { [needs_user_input |-> TRUE, has_query |-> FALSE, rewritten_query |-> << >>],
      [needs_user_input |-> FALSE, has_query |-> FALSE, rewritten_query |-> << >>] }
    \cup { [needs_user_input |-> FALSE, has_query |-> TRUE, rewritten_query |-> q] :
             q \in RewrittenQueries }

\* the retries breaker comparing with > instead of >=
CircuitBreaker_off_by_one(r, c) ==
    IF r > RetryCap THEN "retries"
    ELSE IF c >= SameFailureCap THEN "same_failure"
    ELSE "none"

\* the retries breaker firing on the first failure
CircuitBreaker_first_failure(r, c) ==
    IF r >= 1 THEN "retries"
    ELSE IF c >= SameFailureCap THEN "same_failure"
    ELSE "none"

\* the two circuit breakers: which one ends the run, or "none"
CircuitBreaker(r, c) ==
    IF r >= RetryCap THEN "retries"
    ELSE IF c >= SameFailureCap THEN "same_failure"
    ELSE "none"

\* the answer a circuit breaker leaves
BreakerAnswer(b, current_failure) ==
    IF b = "same_failure" /\ current_failure = "error"
    THEN TechnicalApologyMsg
    ELSE GiveUpMsg

\* lines 398-435: a circuit breaker ends the run with a fixed apology
BreakerPath(b) ==
    /\ answer' = BreakerAnswer(b, quality_detail.failure_reason)
    /\ route' = "end"
    /\ UNCHANGED << question, rewrite_calls, rewrite_result, retries,
                    consecutive_same_failures, previous_failure_reason >>

\* a request for user input that goes round the graph again
ClarifyPath_retries(rw) ==
    /\ answer' = ClarifyMsg
    /\ route' = "retry"
    /\ UNCHANGED << question, retries, consecutive_same_failures,
                    previous_failure_reason >>

\* lines 448-452: the rewrite step asks for user input
ClarifyPath(rw) ==
    /\ answer' = ClarifyMsg
    /\ route' = "end"
    /\ UNCHANGED << question, retries, consecutive_same_failures,
                    previous_failure_reason >>

\* a retry path that starts the counters afresh
RetryPath_resets_counters(rw) ==
    /\ question' = IF rw.has_query THEN rw.rewritten_query ELSE question
    /\ answer' = RetryStatusMsg
    /\ route' = "retry"
    /\ retries' = 0
    /\ consecutive_same_failures' = 0
    /\ previous_failure_reason' = ""

\* lines 453-456: the retry path
RetryPath(rw) ==
    /\ question' = IF rw.has_query THEN rw.rewritten_query ELSE question
    /\ answer' = RetryStatusMsg
    /\ route' = "retry"
    /\ UNCHANGED << retries, consecutive_same_failures,
                    previous_failure_reason >>

\* a pass that leaves the retries counter as it was
PassPath_keeps_retries ==
    /\ retries' = retries
    /\ consecutive_same_failures' = 0
    /\ previous_failure_reason' = ""
    /\ route' = "end"
    /\ UNCHANGED << question, answer, rewrite_calls, rewrite_result >>

\* lines 457-462: a pass resets the counters
PassPath ==
    /\ retries' = 0
    /\ consecutive_same_failures' = 0
    /\ previous_failure_reason' = ""
    /\ route' = "end"
    /\ UNCHANGED << question, answer, rewrite_calls, rewrite_result >>

quality_evaluator_decide ==
    /\ node = "quality_evaluator_decide"
    /\ IF ~quality_passed
       THEN LET b == CircuitBreaker(retries, consecutive_same_failures)
            IN  /\ breaker' = b
                /\ IF b # "none"
                   THEN BreakerPath(b)
                   ELSE \E rw \in RewriteResults :
                          /\ rewrite_calls' = Count(rewrite_calls)
                          /\ rewrite_result' = rw
                          /\ IF rw.needs_user_input
                             THEN ClarifyPath(rw)
                             ELSE RetryPath(rw)
       ELSE /\ PassPath
            /\ UNCHANGED breaker
    /\ node' = _route_from_quality_evaluator(route')
    /\ UNCHANGED << request_type, analysis_data, rag_search_results,
                    quality_passed, quality_detail, messages, current_charts,
                    current_saved_file, run_question, run_previous,
                    evaluated_question, report_input, traversal,
                    evaluations, call >>

-----------------------------------------------------------------------------
(* The graph *)

Next ==
    \/ request_analyst_node
    \/ supervisor_node
    \/ financial_analyst_node
    \/ general_conversation_node
    \/ report_generator_node
    \/ quality_evaluator_node
    \/ quality_evaluator_decide

Spec == Init /\ [][Next]_vars

-----------------------------------------------------------------------------
(* External calls that raise.  The nodes call request_analysis, supervisor,   *)
(* retriever.retrieve and rewrite_query outside any try block, and run calls  *)
(* graph.invoke outside any try block: the exception leaves run.              *)

\* the exception propagates out of graph.invoke and out of run
RunRaises ==
    /\ node' = "RAISED"
    /\ UNCHANGED << question, answer, route, request_type, analysis_data,
                    rag_search_results, quality_passed, quality_detail, retries,
                    previous_failure_reason, consecutive_same_failures, messages,
                    current_charts, current_saved_file, run_question,
                    run_previous, evaluated_question, rewrite_result,
                    report_input, traversal, evaluations, breaker, call >>

\* request_analyst_node, line 133: request_analysis raises
request_analysis_raises ==
    /\ node = "request_analyst"
    /\ Strip(question) # << >>
    /\ ~(has_previous_analysis /\ is_follow_up(question))
    /\ RunRaises
    /\ UNCHANGED rewrite_calls

\* supervisor_node, line 146: supervisor raises
supervisor_raises ==
    /\ node = "supervisor"
    /\ RunRaises
    /\ UNCHANGED rewrite_calls

\* report_generator_node, line 274: retriever.retrieve raises
retrieve_raises ==
    /\ node = "report_generator"
    /\ request_type \in {"rag", "NOT_SET"}
    /\ RunRaises
    /\ UNCHANGED rewrite_calls

\* quality_evaluator_node, line 437: rewrite_query raises
rewrite_query_raises ==
    /\ node = "quality_evaluator_decide"
    /\ ~quality_passed
    /\ CircuitBreaker(retries, consecutive_same_failures) = "none"
    /\ rewrite_calls' = Count(rewrite_calls)
    /\ RunRaises

NextWithFailures ==
    \/ Next
    \/ request_analysis_raises
    \/ supervisor_raises
    \/ retrieve_raises
    \/ rewrite_query_raises

\* runs in which the external calls may raise as well as return
FailSpec == Init /\ [][NextWithFailures]_vars

\* graph.invoke runs the next node as long as there is one
FairSpec == Spec /\ WF_vars(Next)

-----------------------------------------------------------------------------
(* scenario3 of clean_query.py as a run: the one-word follow-up KO_eung ("yes") *)
(* after a turn whose assistant message offered a PDF and whose analysis data  *)
(* the front end stored and passes as previous_analysis_data.                  *)

FollowUpInit ==
    /\ run_question = << "KO_eung" >>
    /\ messages = << "human", "ai" >>
    /\ run_previous \in PreviousAnalysisData \ {NoData}
    /\ question = run_question
    /\ answer = NoAnswer
    /\ route = ""
    /\ retries = 0
    /\ quality_passed = FALSE
    /\ rag_search_results = 0
    /\ consecutive_same_failures = 0
    /\ previous_failure_reason = ""
    /\ analysis_data = run_previous
    /\ request_type = "NOT_SET"
    /\ quality_detail = NoDetail
    /\ current_charts = {}
    /\ current_saved_file = ""
    /\ node = "request_analyst"
    /\ evaluated_question = << "NOT_EVALUATED" >>
    /\ rewrite_calls = 0
    /\ rewrite_result = NoRewrite
    /\ report_input = NoData
    /\ traversal = NoTraversal
    /\ evaluations = << >>
    /\ breaker = "none"
    /\ call = NoCall

FollowUpSpec == FollowUpInit /\ [][Next]_vars

-----------------------------------------------------------------------------
(* Direct calls of the agents' methods, as a caller or a test makes them:    *)
(* the arguments and what the LLM and the tools do are drawn from small sets, *)
(* and call records the arguments, the collaborators' calls and the result.   *)

\* no graph run is going on while an agent method is called directly
AgentInit ==
    /\ node = "agents"
    /\ call = NoCall
    /\ run_question = << >>
    /\ question = << >>
    /\ messages = << >>
    /\ run_previous = NoData
    /\ analysis_data = NoData
    /\ answer = NoAnswer
    /\ route = ""
    /\ retries = 0
    /\ quality_passed = FALSE
    /\ rag_search_results = 0
    /\ consecutive_same_failures = 0
    /\ previous_failure_reason = ""
    /\ request_type = "NOT_SET"
    /\ quality_detail = NoDetail
    /\ current_charts = {}
    /\ current_saved_file = ""
    /\ evaluated_question = << "NOT_EVALUATED" >>
    /\ rewrite_calls = 0
    /\ rewrite_result = NoRewrite
    /\ report_input = NoData
    /\ traversal = NoTraversal
    /\ evaluations = << >>
    /\ breaker = "none"

\* no graph run is going on and no direct call has been made
AgentIdle == node = "agents" /\ call = NoCall

\* a direct call leaves the workflow state alone
AgentCall(c) ==
    /\ call' = c
    /\ UNCHANGED << node, question, answer, route, request_type, analysis_data,
                    rag_search_results, quality_passed, quality_detail, retries,
                    previous_failure_reason, consecutive_same_failures, messages,
                    current_charts, current_saved_file, run_question,
                    run_previous, evaluated_question, rewrite_calls,
                    rewrite_result, report_input, traversal, evaluations,
                    breaker >>

-----------------------------------------------------------------------------
(* QualityEvaluator.evaluate_answer called directly *)

\* answers: missing, or a text of a trimmed length with any mix of markers
AnswerTexts ==
    { NoAnswer, Text("", 0, 3, FALSE, FALSE, FALSE) }
    \cup { Text("text", n, pad, s, c, e) :
             n \in {MinAnswerChars - 1, MinAnswerChars, MaxReportChars},
             pad \in {0, 3},
             s \in BOOLEAN, c \in BOOLEAN, e \in BOOLEAN }

\* what the judge may write after a criterion label (-1: the line is missing)
ScoreValues == {-1, 0, 1, 2, 5, 6}

AllJudgeResponses ==
    { [raises |-> TRUE, lines |-> << -1, -1, -1, -1 >>] }
    \cup { [raises |-> FALSE, lines |-> l] : l \in [criteria -> ScoreValues] }

\* the checks and calls evaluate_answer goes through, in order
evaluate_answer_steps(a, judge) ==
    IF TrimmedLength(a) < MinAnswerChars THEN << >>
    ELSE IF _is_critical_error(a) THEN << "_is_critical_error" >>
    ELSE IF judge.raises
    THEN << "_is_critical_error", "evaluation_chain.invoke" >>
    ELSE << "_is_critical_error", "evaluation_chain.invoke", "_parse_scores" >>

call_evaluate_answer ==
    /\ AgentIdle
    /\ \E a \in AnswerTexts, judge \in AllJudgeResponses :
        AgentCall([fn |-> "evaluate_answer",
                   answer |-> a,
                   judge |-> judge,
                   steps |-> evaluate_answer_steps(a, judge),
                   result |-> evaluate_answer(<< "samsung", "KO_analysis" >>,
                                              a, judge)])

-----------------------------------------------------------------------------
(* ReportGenerator.generate_report called directly *)

\* user requests as whitespace-separated tokens
UserRequests ==
    { << "samsung" >>,
      << "samsung", "KO_analysis", "KO_save" >>,
      << WS, "samsung", "PDF", "KO_save", WS, WS >>,
      << "samsung", "KO_analysis", "PDF", "KO_save" >>,
      << "samsung", "KO_analysis", "KO_chart", "KO_draw", "KO_save" >> }

\* analysis_data handed to generate_report: nothing, or a mapping (its
\* analysis_type is NOT_SET when the key is absent) that may carry the chart
\* paths of an earlier report under chart_paths or under charts
ReportData ==
    { [present |-> FALSE, analysis_type |-> "", chart_paths |-> << >>,
       charts |-> << >>] }
    \cup { [present |-> TRUE, analysis_type |-> t, chart_paths |-> p,
            charts |-> c] :
             t \in {"single", "comparison", "rag", "concept", "NOT_SET"},
             p \in {<< >>, << "stock_chart" >>},
             c \in {<< >>, << "stock_chart" >>} }

\* _create_plan: raises, or returns a plan
PlanOutcomes ==
    { [raises |-> TRUE,
       plan |-> [needs_stock_chart |-> FALSE, needs_valuation_chart |-> FALSE,
                 needs_save |-> FALSE, save_format |-> "none"]] }
    \cup { [raises |-> FALSE, plan |-> p] : p \in ReportPlans }

\* a tool call returns its success text, returns a failure text, or raises
ToolResults == {"ok", "failed", "raise"}

ToolOutcomes ==
    [draw_stock_chart : ToolResults, draw_valuation_radar : ToolResults,
     save_report_to_file : ToolResults]

\* _generate_report_directly: the template, the error text of its own except
\* block, or an exception raised before its try block
FallbackOutcomes == {"template", "error_text", "raise"}

\* a tool call whose exception is left to the caller
ToolCall_unguarded(result) == result

\* try: tool.invoke(...) except Exception: the failure is logged
ToolCall(result) == IF result = "raise" THEN "failed" ELSE result

\* one template whatever the analysis_type
TemplateReport_always_single(data) == << "template", "single" >>

\* the template of _generate_report_directly, by
\* analysis_data.get("analysis_type", "single")
TemplateReport(data) ==
    LET analysis_type == IF data.analysis_type = "NOT_SET" THEN "single"
                         ELSE data.analysis_type
    IN  IF analysis_type \in {"single", "comparison", "rag"}
        THEN << "template", analysis_type >>
        ELSE << "template", "other" >>

\* lines 200-222: the except block of generate_report
ReportFallback(data, fallback, tools) ==
    IF fallback = "raise"
    THEN [result |-> [report |-> << "report_error" >>, status |-> "error",
                      charts |-> << >>, saved_path |-> ""],
          tools |-> tools]
    ELSE [result |-> [report |-> IF fallback = "template"
                                 THEN TemplateReport(data)
                                 ELSE << "report_error" >>,
                      status |-> "partial", charts |-> << >>, saved_path |-> ""],
          tools |-> tools]

\* the save attempted only when every requested chart was drawn
SaveRuns_after_charts_ok(plan, stock, valuation) ==
    /\ plan.needs_save /\ plan.save_format # "none"
    /\ stock \in {"ok", "skipped"} /\ valuation \in {"ok", "skipped"}

\* line 160: if plan.needs_save and plan.save_format, reached unless a tool
\* call before it let its exception through
SaveRuns(plan, stock, valuation) ==
    /\ plan.needs_save /\ plan.save_format # "none"
    /\ stock # "raise" /\ valuation # "raise"

Invocation(tool, outcome, chart_paths) ==
    [tool |-> tool, outcome |-> outcome, chart_paths |-> chart_paths]

\* lines 92-222
generate_report(user_request, data, planned, tool, fallback) ==
    IF ~data.present
    THEN [result |-> [report |-> << "no_analysis_data" >>, status |-> "error",
                      charts |-> << >>, saved_path |-> ""],
          tools |-> << >>]
    ELSE IF planned.raises
    THEN ReportFallback(data, fallback, << >>)
    ELSE
      LET plan == _validate_explicit_requests(user_request, planned.plan)
          \* 3-1
          stock == IF plan.needs_stock_chart
                   THEN ToolCall(tool.draw_stock_chart) ELSE "skipped"
          tools1 == IF plan.needs_stock_chart
                    THEN << Invocation("draw_stock_chart",
                                       tool.draw_stock_chart, << >>) >>
                    ELSE << >>
          charts1 == IF stock = "ok" THEN << "stock_chart" >> ELSE << >>
          \* 3-2
          runs2 == plan.needs_valuation_chart /\ stock # "raise"
          valuation == IF runs2 THEN ToolCall(tool.draw_valuation_radar)
                       ELSE "skipped"
          tools2 == IF runs2
                    THEN Append(tools1, Invocation("draw_valuation_radar",
                                          tool.draw_valuation_radar, << >>))
                    ELSE tools1
          charts == IF valuation = "ok"
                    THEN Append(charts1, "valuation_radar") ELSE charts1
          \* 3-3
          runs3 == SaveRuns(plan, stock, valuation)
          all_charts == IF charts # << >> THEN charts ELSE data.charts
          saved == IF runs3 THEN ToolCall(tool.save_report_to_file)
                   ELSE "skipped"
          tools3 == IF runs3
                    THEN Append(tools2, Invocation("save_report_to_file",
                                          tool.save_report_to_file, all_charts))
                    ELSE tools2
      IN  IF "raise" \in {stock, valuation, saved}
          THEN ReportFallback(data, fallback, tools3)
          ELSE [result |-> [report |-> << "plan_report_text" >>,
                            status |-> "success",
                            charts |-> charts,
                            saved_path |-> IF saved = "ok" THEN "report_file"
                                           ELSE ""],
                tools |-> tools3]

call_generate_report ==
    /\ AgentIdle
    /\ \E user_request \in UserRequests, data \in ReportData,
          planned \in PlanOutcomes, tool \in ToolOutcomes,
          fallback \in FallbackOutcomes :
        LET out == generate_report(user_request, data, planned, tool, fallback)
        IN  AgentCall([fn |-> "generate_report",
                       user_request |-> user_request,
                       analysis_data |-> data,
                       planned |-> planned,
                       fallback |-> fallback,
                       tools |-> out.tools,
                       result |-> out.result])

-----------------------------------------------------------------------------
(* FinancialAnalyst.analyze called directly *)

\* _extract_company_names: the LLM call raises, or the names it lists
ExtractionOutcomes ==
    { [raises |-> TRUE, names |-> << >>] }
    \cup { [raises |-> FALSE, names |-> n] :
             n \in { << >>, << "samsung" >>, << "samsung", "apple" >>,
                     << "apple", "samsung" >>, << "samsung", "samsung_elec" >> } }

\* search_stocks for the i-th name: a ticker line, a not-found or error text,
\* a text without a ticker line, or an exception
LookupResults == {"found", "not_found", "unparsed", "raise"}

LookupOutcomes == [1..2 -> LookupResults]

\* the ticker search_stocks lists first for a name
TickerOf(name) == IF name = "apple" THEN "AAPL" ELSE "005930.KS"

InSeq(x, s) == \E i \in 1..Len(s) : s[i] = x

\* lines 203-227: the loop over the extracted names
RECURSIVE LookupLoop(_, _, _, _)
LookupLoop(names, lookup, i, tickers) ==
    IF i > Len(names) THEN [raised |-> FALSE, tickers |-> tickers]
    ELSE IF lookup[i] = "raise" THEN [raised |-> TRUE, tickers |-> tickers]
    ELSE IF lookup[i] = "found" /\ ~InSeq(TickerOf(names[i]), tickers)
    THEN LookupLoop(names, lookup, i + 1, Append(tickers, TickerOf(names[i])))
    ELSE LookupLoop(names, lookup, i + 1, tickers)

\* lines 185-231
_extract_tickers(extraction, lookup) ==
    IF extraction.raises \/ extraction.names = << >> THEN << >>
    ELSE LET looked == LookupLoop(extraction.names, lookup, 1, << >>)
         IN  IF looked.raised THEN << >> ELSE looked.tickers

\* the four sub-fetches of _collect_stock_data: each returns or raises
Fetches == {"stock_info", "historical", "web_search", "analyst_rec"}

\* the 52-week fields of stock_info
Week52 == {"52week_high", "52week_low"}

\* get_stock_info: raises, or returns a mapping, given by the fields that
\* carry a non-zero value
StockInfoOutcomes ==
    { [raises |-> TRUE, value |-> {}] }
    \cup { [raises |-> FALSE, value |-> v] :
             v \in { {"name", "current_price", "52week_high", "52week_low"},
                     {"name", "current_price", "52week_low"},
                     {"name", "current_price"} } }

\* get_historical_prices: raises, or returns an empty text, a price series
\* with High and Low columns, or a text without them
HistoricalOutcomes ==
    { [raises |-> TRUE, value |-> ""] }
    \cup { [raises |-> FALSE, value |-> v] : v \in {"", "prices", "no_columns"} }

\* web_search and get_analyst_recommendations: raise, or return a text
TextOutcomes ==
    { [raises |-> TRUE, value |-> ""], [raises |-> FALSE, value |-> "text"] }

FetchOutcomes ==
    [stock_info : StockInfoOutcomes, historical : HistoricalOutcomes,
     web_search : TextOutcomes, analyst_rec : TextOutcomes]

\* one failed fetch empties the whole record
_collect_stock_data_all_or_nothing(ticker, fetch) ==
    IF \E f \in Fetches : fetch[f].raises
    THEN [ticker |-> ticker, stock_info |-> {}, historical |-> "",
          web_search |-> "", analyst_rec |-> ""]
    ELSE [ticker |-> ticker, stock_info |-> fetch.stock_info.value,
          historical |-> fetch.historical.value,
          web_search |-> fetch.web_search.value,
          analyst_rec |-> fetch.analyst_rec.value]

\* lines 233-328
_collect_stock_data(ticker, fetch) ==
    LET \* 1: collected_data["stock_info"] = stock_info, or {}
        stock_info == IF fetch.stock_info.raises THEN {}
                      ELSE fetch.stock_info.value
        \* 2: collected_data["historical"] = historical, or ""
        historical == IF fetch.historical.raises THEN ""
                      ELSE fetch.historical.value
        \* lines 264-297: 52-week high and low taken from the price series
        \* when stock_info has none
        backfill == /\ ~fetch.historical.raises
                    /\ Week52 \ stock_info # {}
                    /\ historical = "prices"
    IN  [ticker |-> ticker,
         stock_info |-> IF backfill THEN stock_info \cup Week52 ELSE stock_info,
         historical |-> historical,
         web_search |-> IF fetch.web_search.raises THEN ""
                        ELSE fetch.web_search.value,
         analyst_rec |-> IF fetch.analyst_rec.raises THEN ""
                         ELSE fetch.analyst_rec.value]

AnalysisTypes == {"single", "comparison", "concept", "definition", "error"}

\* the structured LLM call: raises, or returns a result of the type it chose
StructuredOutcomes ==
    { [raises |-> TRUE, analysis_type |-> ""] }
    \cup { [raises |-> FALSE, analysis_type |-> t] : t \in AnalysisTypes }

AnalysisResult(type, collected, error, by_llm) ==
    [analysis_type |-> type, stocks |-> collected, has_error |-> error,
     by_llm |-> by_llm]

\* lines 580-613
_handle_concept_query(concept_raises) ==
    IF concept_raises THEN AnalysisResult("error", << >>, TRUE, FALSE)
    ELSE AnalysisResult("concept", << >>, FALSE, TRUE)

\* lines 470-578
_generate_analysis(stock_data, llm) ==
    IF llm.raises THEN AnalysisResult("single", << stock_data >>, FALSE, FALSE)
    ELSE AnalysisResult(llm.analysis_type, << stock_data >>, FALSE, TRUE)

\* lines 330-468
_compare_multiple_stocks(tickers, fetch, llm) ==
    LET stocks_data == [i \in 1..Len(tickers) |->
                          _collect_stock_data(tickers[i], fetch)]
    IN  IF llm.raises THEN AnalysisResult("comparison", stocks_data, FALSE, FALSE)
        ELSE AnalysisResult(llm.analysis_type, stocks_data, FALSE, TRUE)

\* lines 83-148
analyze(extraction, lookup, fetch, llm, concept_raises) ==
    LET tickers == _extract_tickers(extraction, lookup)
    IN  IF tickers = << >> THEN _handle_concept_query(concept_raises)
        ELSE IF Len(tickers) = 1
        THEN _generate_analysis(_collect_stock_data(tickers[1], fetch), llm)
        ELSE _compare_multiple_stocks(tickers, fetch, llm)

\* the calls analyze made to its collaborators that raised
AnalyzeRaised(extraction, lookup, fetch, llm, concept_raises) ==
    LET tickers == _extract_tickers(extraction, lookup)
    IN  (IF extraction.raises THEN {"extract_company_names"} ELSE {})
        \cup (IF \E i \in 1..Len(extraction.names) :
                    /\ lookup[i] = "raise"
                    /\ \A j \in 1..(i - 1) : lookup[j] # "raise"
              THEN {"search_stocks"} ELSE {})
        \cup (IF tickers = << >>
              THEN (IF concept_raises THEN {"analyze_concept"} ELSE {})
              ELSE {f \in Fetches : fetch[f].raises}
                   \cup (IF llm.raises THEN {"structured_output"} ELSE {}))

call_analyze ==
    /\ AgentIdle
    /\ \E extraction \in ExtractionOutcomes, lookup \in LookupOutcomes,
          fetch \in FetchOutcomes, llm \in StructuredOutcomes,
          concept_raises \in BOOLEAN :
        AgentCall([fn |-> "analyze",
                   names |-> extraction.names,
                   lookup |-> lookup,
                   fetch |-> fetch,
                   tickers |-> _extract_tickers(extraction, lookup),
                   raised |-> AnalyzeRaised(extraction, lookup, fetch, llm,
                                            concept_raises),
                   result |-> analyze(extraction, lookup, fetch, llm,
                                      concept_raises)])

AgentNext ==
    \/ call_evaluate_answer
    \/ call_generate_report
    \/ call_analyze

AgentSpec == AgentInit /\ [][AgentNext]_vars

TypeOK ==
    /\ node \in {"request_analyst", "supervisor", "financial_analyst",
                 "general_conversation", "report_generator",
                 "quality_evaluator", "quality_evaluator_decide", "END",
                 "RAISED", "agents"}
    /\ retries \in Nat
    /\ consecutive_same_failures \in Nat
    /\ route \in {"", "end", "supervisor", "financial_analyst",
                  "general_conversation", "report_generator", "retry"}

-----------------------------------------------------------------------------
(* Properties *)

\* the run is over
Ended == node = "END"

\* the run was ended by a circuit breaker of quality_evaluator_node
EndedByBreaker == Ended /\ breaker # "none"

\* every evaluation of the run returned fail with failure_reason = error
OnlyErrorFailures ==
    /\ evaluations # << >>
    /\ \A i \in 1..Len(evaluations) : evaluations[i] = "error"

\* C1: in every reachable state of a run the retries counter is at most 2,
\* whatever the evaluator, the classifier, the router and the rewrite step return.
C1_RetriesAtMostTwo == retries <= 2

\* a run that ended with the retries counter at the cap
C1_Witness == Ended /\ retries = 2

\* C2: every run eventually reaches END, however often the evaluator fails.
C2_RunTerminates == <>(node = "END")

\* a run that ended after the evaluator failed, the question was rewritten and
\* the graph was traversed a second time
C2_Witness == Ended /\ Len(evaluations) = 2 /\ rewrite_calls = 1

\* C3 as stated: a run in which every evaluation fails with error, and which
\* is ended by the evaluator node, has made exactly 2 rewrite attempts.
C3_TwoRewrites == (EndedByBreaker /\ OnlyErrorFailures) => rewrite_calls = 2

\* C3 amended: such a run makes exactly 1 rewrite attempt; the second failed
\* evaluation ends it.
C3_OneRewrite ==
    (EndedByBreaker /\ OnlyErrorFailures)
        => (rewrite_calls = 1 /\ Len(evaluations) = 2)

\* a run ended by a circuit breaker after nothing but error failures
C3_Witness == EndedByBreaker /\ OnlyErrorFailures /\ retries = 2

\* C4: a run ended by a circuit breaker after a fail evaluation with
\* failure_reason = error ends with the technical-apology answer.
C4_TechnicalApology ==
    (EndedByBreaker /\ quality_detail.failure_reason = "error")
        => answer = TechnicalApologyMsg

\* C5: after a fail evaluation has updated the counters, retries >= 2 or
\* consecutive_same_failures >= 2 makes the node end the run with a fixed apology
\* without calling the rewrite step; otherwise the rewrite step is called.
C5_BreakersBeforeRewrite ==
    [][ (node = "quality_evaluator_decide" /\ ~quality_passed)
          => IF retries >= 2 \/ consecutive_same_failures >= 2
             THEN /\ route' = "end"
                  /\ node' = "END"
                  /\ answer' \in {GiveUpMsg, TechnicalApologyMsg}
                  /\ rewrite_calls' = rewrite_calls
             ELSE rewrite_calls' = rewrite_calls + 1 ]_vars

\* a circuit breaker ended the run after one rewrite
C5_Witness == EndedByBreaker /\ rewrite_calls = 1 /\ answer = GiveUpMsg

\* C6: financial_analyst is followed by report_generator, except that a failed
\* financial_analyst_node (route = end) ends the run with the node's apology.
C6_AnalystFailureEndsRun ==
    [][ node = "financial_analyst"
          => IF route' = "end"
             THEN node' = "END"
             ELSE node' = "report_generator" ]_vars

\* the question has a follow-up keyword among its words
HasFollowUpWord(q) ==
    \E i \in 1..Len(q) :
        q[i] \in { "KO_graph", "KO_chart", "KO_save", "KO_draw", "KO_download",
                   "KO_file", "pdf", "PDF", "md", "MD", "markdown", "KO_report" }

\* C7 as stated: the bypass is taken only with a follow-up keyword and the
\* previous_analysis_data passed to run; the traversal calls no analyze and the
\* Report Composer receives that previous_analysis_data.
C7_BypassOnPriorTurnData ==
    (node \in {"report_generator", "quality_evaluator"} /\ traversal.bypass)
        => /\ HasFollowUpWord(question)
           /\ run_previous.present
           /\ analysis_data.origin = "previous_turn"
           /\ traversal.analyze = 0
           /\ traversal.composer => report_input.origin = "previous_turn"

\* C7 amended: request_analyst_node routes to report_generator exactly when the
\* question has a follow-up keyword and analysis_data is present in state (the
\* previous_analysis_data passed to run, or data stored by an earlier traversal
\* of this run); that traversal calls no analyze, and the Report Composer, when
\* called, receives the analysis_data the state holds.
C7_BypassOnStoredData ==
    /\ [][ node = "request_analyst"
             => /\ node' = "report_generator"
                    <=> (HasFollowUpWord(question) /\ analysis_data.present)
                /\ traversal'.bypass <=> node' = "report_generator" ]_vars
    /\ [][ (node = "report_generator" /\ traversal.bypass)
             => /\ traversal'.analyze = 0
                /\ traversal'.composer => report_input' = analysis_data ]_vars
    /\ [](traversal.bypass => traversal.analyze = 0)

\* the bypass was taken on data a traversal of this run stored, and the Report
\* Composer has been called
C7_Witness ==
    /\ node = "quality_evaluator"
    /\ traversal.bypass
    /\ traversal.composer
    /\ ~run_previous.present

\* C8 as stated: the retry path changes only question and route.
C8_RetryChangesQuestionAndRoute ==
    [][ (node = "quality_evaluator_decide" /\ route' = "retry")
          => /\ node' = "request_analyst"
             /\ UNCHANGED << answer, request_type, analysis_data,
                             rag_search_results, quality_passed, quality_detail,
                             retries, previous_failure_reason,
                             consecutive_same_failures, messages,
                             current_charts, current_saved_file >> ]_vars

\* C8 amended: the retry path changes only question, route and answer (the
\* transitional status message); request_analyst is re-entered with the
\* retries, consecutive_same_failures, previous_failure_reason and
\* analysis_data the evaluation left.
C8_RetryChangesQuestionRouteAnswer ==
    [][ (node = "quality_evaluator_decide" /\ route' = "retry")
          => /\ node' = "request_analyst"
             /\ UNCHANGED << request_type, analysis_data,
                             rag_search_results, quality_passed, quality_detail,
                             retries, previous_failure_reason,
                             consecutive_same_failures, messages,
                             current_charts, current_saved_file >> ]_vars

\* request_analyst is re-entered on the retry transition
C8_Witness ==
    /\ node = "request_analyst"
    /\ route = "retry"
    /\ retries = 1
    /\ consecutive_same_failures = 1
    /\ analysis_data.present

\* C9: every evaluate_answer call of a run gets the question passed to run.
C9_EvaluatesRunQuestion ==
    evaluated_question # << "NOT_EVALUATED" >>
        => evaluated_question = run_question

\* C10: when the evaluator returns pass the node leaves retries = 0,
\* consecutive_same_failures = 0, previous_failure_reason = "" and route = end,
\* whatever the counters were.
C10_PassResets ==
    [][ (node = "quality_evaluator_decide" /\ quality_passed)
          => /\ retries' = 0
             /\ consecutive_same_failures' = 0
             /\ previous_failure_reason' = ""
             /\ route' = "end"
             /\ node' = "END" ]_vars

\* a pass that followed a fail and a retry in the same run
C10_Witness ==
    /\ Ended
    /\ quality_passed
    /\ Len(evaluations) = 2
    /\ evaluations[1] # "None"
    /\ retries = 0

\* length of the maximal run of identical values at the end of a history
RECURSIVE TrailingRun(_)
TrailingRun(h) ==
    IF h = << >> THEN 0
    ELSE IF Len(h) = 1 THEN 1
    ELSE IF h[Len(h)] = h[Len(h) - 1]
         THEN 1 + TrailingRun(SubSeq(h, 1, Len(h) - 1))
         ELSE 1

\* C11: a fail evaluation increments retries by exactly 1, stores its
\* failure_reason in previous_failure_reason, and increments
\* consecutive_same_failures when the preceding evaluation of the run had the
\* same failure_reason and sets it to 1 otherwise; so after a fail
\* consecutive_same_failures is the length of the run of identical failure
\* reasons that ends at the latest evaluation.
C11_FailureBookkeeping ==
    /\ [][ (node = "quality_evaluator" /\ ~quality_passed')
             => /\ retries' = retries + 1
                /\ previous_failure_reason' = quality_detail'.failure_reason
                /\ consecutive_same_failures' =
                     IF evaluations # << >>
                        /\ evaluations[Len(evaluations)]
                             = quality_detail'.failure_reason
                     THEN consecutive_same_failures + 1
                     ELSE 1 ]_vars
    /\ []((evaluations # << >> /\ ~quality_passed)
            => consecutive_same_failures = TrailingRun(evaluations))

\* the second fail of a run had another failure_reason than the first, and the
\* counter went back to 1
C11_Witness ==
    /\ node = "quality_evaluator_decide"
    /\ Len(evaluations) = 2
    /\ evaluations[1] # evaluations[2]
    /\ ~quality_passed
    /\ consecutive_same_failures = 1
    /\ retries = 2

\* C12: when a fail leaves both counters below their caps, a rewrite result
\* with needs_user_input ends the run at that step with the clarification
\* message, the question unchanged and request_analyst not re-entered; any
\* other rewrite result puts its rewritten query in question (the question
\* stays when the result carries none) and re-enters the graph at request_analyst.
C12_ClarifyOrRetry ==
    [][ (node = "quality_evaluator_decide" /\ ~quality_passed
         /\ retries < RetryCap /\ consecutive_same_failures < SameFailureCap)
          => IF rewrite_result'.needs_user_input
             THEN /\ route' = "end"
                  /\ node' = "END"
                  /\ answer' = ClarifyMsg
                  /\ question' = question
             ELSE /\ route' = "retry"
                  /\ node' = "request_analyst"
                  /\ question' = IF rewrite_result'.has_query
                                 THEN rewrite_result'.rewritten_query
                                 ELSE question ]_vars

\* the run ended on the rewrite step's request for user input
C12_Witness ==
    /\ Ended
    /\ rewrite_result.needs_user_input
    /\ rewrite_calls = 1
    /\ answer = ClarifyMsg
    /\ question = run_question

\* the answers general_conversation_node writes
ConversationAnswers ==
    { GreetingMsg, ThanksMsg, GoodbyeMsg, MetaPreviousMsg, MetaNoneMsg,
      ConversationMsg, ConversationFailedMsg }

\* C13: the step of general_conversation_node ends the run: no evaluation of
\* its answer, the retry counters and the question as they were, no rewrite, and
\* nothing runs after END.
C13_ConversationEndsRun ==
    /\ [][ node = "general_conversation"
             => /\ node' = "END"
                /\ answer' \in ConversationAnswers
                /\ UNCHANGED << retries, consecutive_same_failures,
                                previous_failure_reason, quality_passed,
                                quality_detail, evaluations, evaluated_question,
                                rewrite_calls, question >> ]_vars
    /\ [][ node # "END" ]_vars

\* general_conversation_node ended a run on the traversal that followed a
\* failed evaluation and a rewrite; its answer was not evaluated
C13_Witness ==
    /\ Ended
    /\ answer \in ConversationAnswers
    /\ retries = 1
    /\ Len(evaluations) = 1
    /\ rewrite_calls = 1

\* C14: run never propagates an exception: when an external call made by a
\* node (classifier, router, document retrieval, query rewrite) raises, the run
\* still goes on to return a state with a final answer.
C14_RunNeverRaises == node # "RAISED"

\* a tool call of the latest generate_report call raised
ToolRaised(tool) ==
    \E i \in 1..Len(call.tools) :
        call.tools[i].tool = tool /\ call.tools[i].outcome = "raise"

SomeToolRaised ==
    \E i \in 1..Len(call.tools) : call.tools[i].outcome = "raise"

\* plan generation of the latest generate_report call raised
PlanRaised == call.analysis_data.present /\ call.planned.raises

\* the judge LLM call of the latest evaluate_answer call raised
JudgeRaised ==
    /\ call.judge.raises
    /\ \E i \in 1..Len(call.steps) : call.steps[i] = "evaluation_chain.invoke"

\* evaluate_answer part of C15: a raising judge call gives fail, error, score 0
C15_EvaluateDegrades ==
    (call.fn = "evaluate_answer" /\ JudgeRaised)
        => /\ call.result.status = "fail"
           /\ call.result.failure_reason = "error"
           /\ call.result.score = 0

\* C15 as stated: when an LLM or tool call made inside raises, analyze returns
\* an error result carrying the message or a degraded concept, single or
\* comparison result (or the result the following LLM call produced),
\* generate_report returns a report with status partial or error, and
\* evaluate_answer returns fail with failure_reason = error and score 0.
C15_DegradedResults ==
    /\ (call.fn = "analyze" /\ call.raised # {})
         => \/ call.result.analysis_type = "error" /\ call.result.has_error
            \/ call.result.analysis_type \in {"concept", "single", "comparison"}
            \/ call.result.by_llm
    /\ (call.fn = "generate_report" /\ (PlanRaised \/ SomeToolRaised))
         => call.result.status \in {"partial", "error"}
    /\ C15_EvaluateDegrades

\* C15 amended: analyze returns the error result carrying the message when the
\* concept LLM call raised, the single or comparison template when the
\* structured LLM call raised, and otherwise the result of the LLM call that
\* follows the failed call; generate_report returns the template report with
\* status partial (error when the template renderer raises too) when plan
\* generation raised, and the plan's report with status success, without the
\* artifact of the failed tool, when a chart or save tool raised; evaluate_answer
\* returns fail with failure_reason = error and score 0.
C15_NonThrowingResults ==
    /\ (call.fn = "analyze" /\ call.raised # {})
         => IF "analyze_concept" \in call.raised
            THEN call.result.analysis_type = "error" /\ call.result.has_error
            ELSE IF "structured_output" \in call.raised
            THEN /\ ~call.result.by_llm
                 /\ call.result.analysis_type =
                      IF Len(call.tickers) = 1 THEN "single" ELSE "comparison"
            ELSE /\ call.result.by_llm
                 /\ call.tickers = << >> => call.result.analysis_type = "concept"
    /\ (call.fn = "generate_report" /\ PlanRaised)
         => /\ call.result.status =
                 IF call.fallback = "raise" THEN "error" ELSE "partial"
            /\ call.result.charts = << >>
            /\ call.result.saved_path = ""
            /\ call.tools = << >>
    /\ (call.fn = "generate_report" /\ SomeToolRaised)
         => /\ call.result.status = "success"
            /\ call.result.report = << "plan_report_text" >>
            /\ ToolRaised("draw_stock_chart")
                 => ~InSeq("stock_chart", call.result.charts)
            /\ ToolRaised("draw_valuation_radar")
                 => ~InSeq("valuation_radar", call.result.charts)
            /\ ToolRaised("save_report_to_file") => call.result.saved_path = ""
    /\ C15_EvaluateDegrades

\* the chart tool raised inside generate_report, the save went through and
\* the plan's report came back with status success
C15_Witness ==
    /\ call.fn = "generate_report"
    /\ ToolRaised("draw_stock_chart")
    /\ call.result.status = "success"
    /\ call.result.saved_path = "report_file"

\* the latest evaluate_answer call got as far as the judge LLM call
JudgeCalled ==
    \E i \in 1..Len(call.steps) : call.steps[i] = "evaluation_chain.invoke"

\* C16: evaluate_answer returns fail, failure_reason = empty, score 0, with
\* neither the critical-error check nor the LLM call made, exactly when the
\* answer is missing or its trimmed length is below 10, whatever vocabulary it
\* contains; an answer of trimmed length >= 10 goes on to the critical-error check.
C16_EmptyGate ==
    call.fn = "evaluate_answer"
        => IF call.answer.chars < 10
           THEN /\ call.result.status = "fail"
                /\ call.result.failure_reason = "empty"
                /\ call.result.score = 0
                /\ call.steps = << >>
           ELSE /\ call.result.failure_reason # "empty"
                /\ call.steps # << >>
                /\ call.steps[1] = "_is_critical_error"

\* a text of 9 characters between surrounding whitespace, with error
\* vocabulary in it, was classified empty
C16_Witness ==
    /\ call.fn = "evaluate_answer"
    /\ call.answer.chars = 9
    /\ call.answer.padding > 0
    /\ call.answer.errorkw
    /\ call.result.failure_reason = "empty"

\* C17: past the empty gate, an answer with a success marker is never
\* classified critical-error, whatever failure phrase or error vocabulary it
\* also contains, and goes to rubric scoring; an answer without one that has a
\* critical failure phrase or error vocabulary gets fail, failure_reason = error,
\* score 0, with no LLM call.
C17_SuccessMarkerOverride ==
    (call.fn = "evaluate_answer" /\ call.answer.chars >= 10)
        => IF call.answer.success
           THEN JudgeCalled
           ELSE (call.answer.critical \/ call.answer.errorkw)
                  => /\ call.result.status = "fail"
                     /\ call.result.failure_reason = "error"
                     /\ call.result.score = 0
                     /\ ~JudgeCalled

\* an answer with a success marker, a critical failure phrase and error
\* vocabulary was scored by the judge and passed
C17_Witness ==
    /\ call.fn = "evaluate_answer"
    /\ call.answer.success
    /\ call.answer.critical
    /\ call.answer.errorkw
    /\ call.result.status = "pass"

\* the criteria of the latest judge response that carry an integer 1..5
Parseable == {c \in criteria : call.judge.lines[c] \in 1..5}

ParseableTotal == SumOver(call.judge.lines, Parseable)

C19_ResultKeys ==
    call.fn = "evaluate_answer"
        => call.result.keys = {"status", "score", "scores", "failure_reason"}

\* C20: for a user_request of at most 3 tokens generate_report invokes no
\* chart tool and no save tool, whatever the LLM plan requested.
C20_ShortRequestNoTools ==
    (call.fn = "generate_report" /\ word_count(call.user_request) <= 3)
        => call.tools = << >>

\* C21: a run of the short follow-up KO_eung after a prior turn with stored
\* analysis_data and an offer of a PDF behaves as a save request: when it ends,
\* the Report Composer has performed the save.
C21_ShortFollowUpSaves ==
    (Ended /\ run_question = << "KO_eung" >> /\ run_previous.present)
        => current_saved_file # ""

\* while the question is the follow-up as the user typed it, the bypass is not
\* taken and no report of the run carries a saved file
FollowUpAsTyped ==
    (run_question = << "KO_eung" >> /\ question = run_question)
        => /\ ~traversal.bypass
           /\ current_saved_file = ""

\* the tickers of the first i names whose lookup succeeded, without duplicates,
\* in extraction order
RECURSIVE SucceededTickers(_, _, _)
SucceededTickers(names, lookup, i) ==
    IF i = 0 THEN << >>
    ELSE LET before == SucceededTickers(names, lookup, i - 1)
         IN  IF lookup[i] = "found" /\ ~InSeq(TickerOf(names[i]), before)
             THEN Append(before, TickerOf(names[i]))
             ELSE before

\* C22: in ticker resolution a lookup that fails for one extracted name (a
\* not-found or error text, or an exception) only skips that name: the ticker
\* list is the duplicate-free list, in extraction order, of the tickers of all
\* names whose lookup succeeded.
C22_FailedLookupSkipsName ==
    call.fn = "analyze"
        => call.tickers = SucceededTickers(call.names, call.lookup, Len(call.names))

\* the latest analyze call got two names of different companies, the lookup
\* of one succeeded and the lookup of the other returned a text without a
\* ticker (a lookup that raises empties the whole list, see C22)
OneLookupFailed ==
    /\ call.fn = "analyze"
    /\ Len(call.names) = 2
    /\ TickerOf(call.names[1]) # TickerOf(call.names[2])
    /\ Cardinality({i \in 1..2 : call.lookup[i] = "found"}) = 1
    /\ \A i \in 1..2 : call.lookup[i] # "raise"

\* the name whose lookup succeeded
FoundName == call.names[CHOOSE i \in 1..2 : call.lookup[i] = "found"]

\* C23: for a comparison question naming two companies where the lookup of one
\* of them fails, analyze returns a result with analysis_type = comparison that
\* contains exactly the data of the one successful ticker, and no error result.
C23_ComparisonOverSubset ==
    OneLookupFailed
        => /\ call.result.analysis_type = "comparison"
           /\ ~call.result.has_error
           /\ Len(call.result.stocks) = 1
           /\ call.result.stocks[1].ticker = TickerOf(FoundName)

\* the latest analyze call resolved one ticker and took the single-ticker path
SinglePath == call.fn = "analyze" /\ Len(call.tickers) = 1

\* the record _collect_stock_data built in that call
Collected == call.result.stocks[1]

\* what a sub-fetch of that call returned, or its empty default when it raised
FetchedOrDefault(f) ==
    IF call.fetch[f].raises THEN (IF f = "stock_info" THEN {} ELSE "")
    ELSE call.fetch[f].value

\* the analysis went on to the result of _generate_analysis: the structured
\* result of the LLM, or the single template when that call raised
SingleResult ==
    /\ Len(call.result.stocks) = 1
    /\ ~call.result.has_error
    /\ call.result.by_llm \/ call.result.analysis_type = "single"

\* C24 as stated: in the single-ticker path, whatever subset of the four
\* sub-fetches fails, the collected record has all four fields, each failed
\* fetch leaves its own field at its empty default, every fetched field keeps
\* its fetched value, and the analysis goes on to a single result.
C24_IndependentFields ==
    SinglePath
        => /\ DOMAIN Collected = {"ticker"} \cup Fetches
           /\ \A f \in Fetches : Collected[f] = FetchedOrDefault(f)
           /\ SingleResult

\* C24 amended: the same, except that stock_info (fetched, or the empty
\* mapping of a failed fetch) also gets the 52-week high and low computed from
\* the price series when it lacks one of them and the historical fetch
\* returned a series with High and Low columns.
C24_FieldsWithBackfill ==
    SinglePath
        => /\ DOMAIN Collected = {"ticker"} \cup Fetches
           /\ \A f \in Fetches \ {"stock_info"} :
                Collected[f] = FetchedOrDefault(f)
           /\ Collected.stock_info =
                IF /\ FetchedOrDefault("historical") = "prices"
                   /\ Week52 \ FetchedOrDefault("stock_info") # {}
                THEN FetchedOrDefault("stock_info") \cup Week52
                ELSE FetchedOrDefault("stock_info")
           /\ SingleResult

\* the basic-info and web-search fetches raised, the other two returned: the
\* record has the analyst text, the price series and the 52-week values taken
\* from it, and the structured LLM call raised so the single template came back
C24_Witness ==
    /\ SinglePath
    /\ call.fetch.stock_info.raises
    /\ call.fetch.web_search.raises
    /\ Collected.stock_info = Week52
    /\ Collected.historical = "prices"
    /\ Collected.web_search = ""
    /\ Collected.analyst_rec = "text"
    /\ call.result.analysis_type = "single"
    /\ ~call.result.by_llm

\* the latest generate_report call had analysis data and got a plan
Planned ==
    /\ call.fn = "generate_report"
    /\ call.analysis_data.present
    /\ ~call.planned.raises

\* the plan of the latest call as _validate_explicit_requests left it
ValidatedPlan ==
    _validate_explicit_requests(call.user_request, call.planned.plan)

\* the tools that plan requests, in the order price chart, valuation chart,
\* save-to-file
RequestedTools ==
    (IF ValidatedPlan.needs_stock_chart THEN << "draw_stock_chart" >> ELSE << >>)
    \o (IF ValidatedPlan.needs_valuation_chart
        THEN << "draw_valuation_radar" >> ELSE << >>)
    \o (IF ValidatedPlan.needs_save /\ ValidatedPlan.save_format # "none"
        THEN << "save_report_to_file" >> ELSE << >>)

\* the tools the latest call invoked, in the order of invocation
InvokedTools == [i \in 1..Len(call.tools) |-> call.tools[i].tool]

\* C25: generate_report invokes the requested tools in the fixed order price
\* chart, valuation chart, save-to-file; a tool call that fails or raises
\* neither keeps a later requested tool from being invoked nor keeps the
\* plan's report text from being returned.
C25_ToolsInOrderIndependently ==
    Planned
        => /\ InvokedTools = RequestedTools
           /\ call.result.report = << "plan_report_text" >>

\* both chart tools raised, the save was still invoked, went through, and the
\* plan's report text came back
C25_Witness ==
    /\ Planned
    /\ Len(call.tools) = 3
    /\ call.tools[1].outcome = "raise"
    /\ call.tools[2].outcome = "raise"
    /\ call.tools[3].tool = "save_report_to_file"
    /\ call.result.saved_path = "report_file"
    /\ call.result.report = << "plan_report_text" >>

\* the template the analysis_type of the latest call selects: single (also
\* when the mapping has no analysis_type), comparison, rag, or the generic one
SelectedTemplate ==
    CASE call.analysis_data.analysis_type \in {"single", "NOT_SET"}
           -> << "template", "single" >>
      [] call.analysis_data.analysis_type = "comparison"
           -> << "template", "comparison" >>
      [] call.analysis_data.analysis_type = "rag" -> << "template", "rag" >>
      [] OTHER -> << "template", "other" >>

\* C26 as stated: if plan generation fails, generate_report returns the
\* template report selected by analysis_type, with charts and saved_path empty,
\* and invokes no chart tool and no save tool.
C26_TemplateOnPlanFailure ==
    (call.fn = "generate_report" /\ PlanRaised)
        => /\ call.result.report = SelectedTemplate
           /\ call.result.charts = << >>
           /\ call.result.saved_path = ""
           /\ call.tools = << >>

\* C26 amended: if plan generation fails, no chart tool and no save tool is
\* invoked and charts and saved_path are empty; the report is the template
\* selected by analysis_type with status partial, unless rendering the template
\* fails too: then it is an error text, with status partial when the renderer
\* caught its exception and status error when it did not.
C26_TemplateOrErrorText ==
    (call.fn = "generate_report" /\ PlanRaised)
        => /\ call.result.charts = << >>
           /\ call.result.saved_path = ""
           /\ call.tools = << >>
           /\ CASE call.fallback = "template"
                     -> /\ call.result.report = SelectedTemplate
                        /\ call.result.status = "partial"
                [] call.fallback = "error_text"
                     -> /\ call.result.report = << "report_error" >>
                        /\ call.result.status = "partial"
                [] OTHER
                     -> /\ call.result.report = << "report_error" >>
                        /\ call.result.status = "error"

\* plan generation raised for comparison data and the comparison template
\* came back with status partial
C26_Witness ==
    /\ call.fn = "generate_report"
    /\ PlanRaised
    /\ call.analysis_data.analysis_type = "comparison"
    /\ call.result.report = << "template", "comparison" >>
    /\ call.result.status = "partial"
    /\ call.tools = << >>

\* C27: in report_generator_node in rag mode an empty retrieval result is not
\* an error: the node calls the analysis agent exactly once, with the same
\* question, and goes on to the evaluator; when that call returns a result
\* mapping, request_type becomes financial_analyst, analysis_data becomes that
\* result (with the artifacts of the report added) and the report is generated
\* from it in the same node execution.
C27_EmptyRetrievalFallsBack ==
    [][ (node = "report_generator" /\ traversal'.retrieved = "empty")
          => /\ request_type \in {"rag", "NOT_SET"}
             /\ traversal'.analyze = traversal.analyze + 1
             /\ traversal'.fallback_query = question
             /\ node' = "quality_evaluator"
             /\ traversal'.fallback = "dict"
                  => /\ request_type' = "financial_analyst"
                     /\ traversal'.composer
                     /\ report_input'.present
                     /\ report_input'.origin = "analyze"
                     /\ [analysis_data' EXCEPT !.chart_paths = {},
                                               !.saved_file_path = ""]
                          = report_input' ]_vars

\* the router chose document search, the retrieval came back empty, the
\* analysis agent returned a mapping and the report was generated from it
C27_Witness ==
    /\ node = "quality_evaluator"
    /\ traversal.routed
    /\ traversal.retrieved = "empty"
    /\ traversal.fallback = "dict"
    /\ traversal.analyze = 1
    /\ traversal.composer
    /\ request_type = "financial_analyst"
    /\ analysis_data.origin = "analyze"
    /\ report_input.origin = "analyze"

\* C28: when generate_report performs a save and drew no chart in the current
\* call, the save tool gets the chart paths that an earlier
\* report_generator_node execution recorded in analysis_data (under
\* chart_paths), so that a follow-up save includes the earlier charts.  The
\* analysis_data is as the node leaves it: it has no charts key.
C28_SaveReusesRecordedCharts ==
    (call.fn = "generate_report" /\ call.analysis_data.charts = << >>)
        => \A i \in 1..Len(call.tools) :
             (call.tools[i].tool = "save_report_to_file"
              /\ call.result.charts = << >>)
                 => call.tools[i].chart_paths = call.analysis_data.chart_paths

\* C29: in every reachable state of a run consecutive_same_failures <= retries;
\* so the retries cap fires no later than the consecutive-same-failure
\* breaker, and the consecutive-failure branch of quality_evaluator_node never
\* is the branch that ends a run.
C29_SameFailuresWithinRetries ==
    /\ consecutive_same_failures <= retries
    /\ consecutive_same_failures >= SameFailureCap => retries >= RetryCap
    /\ breaker # "same_failure"

\* a run failed twice for the same reason: both counters are at 2 and the
\* retries cap is the branch that ended it
C29_Witness ==
    /\ Ended
    /\ breaker = "retries"
    /\ retries = 2
    /\ consecutive_same_failures = 2
    /\ Len(evaluations) = 2
    /\ evaluations[1] = evaluations[2]

\* C30: the transitional status message the retry path writes into answer is
\* never the final answer of a run: every path from the re-entered
\* request_analyst overwrites answer before the evaluator or END is reached.
C30_RetryStatusNeverFinal ==
    node \in {"quality_evaluator", "quality_evaluator_decide", "END"}
        => answer # RetryStatusMsg

\* a run that took the retry path ended with the report of its second
\* traversal as the answer
C30_Witness ==
    /\ Ended
    /\ rewrite_calls = 1
    /\ ~rewrite_result.needs_user_input
    /\ route = "end"
    /\ quality_passed
    /\ traversal.composer
    /\ answer \in ReportTexts

====
